---- MODULE Spec2Model ----
(***************************************************************************)
(* Model of app.py, the "Sustainable Electricity System Prototype"         *)
(* dashboard.  The script is re-executed from top to bottom every time a   *)
(* sidebar slider is moved; one execution reads the six slider values and  *)
(* assigns every module-level name (lines 39-49 and 67-68).                *)
(*                                                                         *)
(* Number representation.  The sliders deliver Python ints.  Every energy  *)
(* and every factor is a Python float; it is represented here by the       *)
(* integer  value * Scale  (fixed point, 1/Scale kWh resolution).  With    *)
(* integer slider values every quantity of lines 39-49 is an exact         *)
(* multiple of 1/Scale, so the arithmetic of the pipeline is carried out   *)
(* without rounding; the binary rounding of IEEE doubles (relative error   *)
(* about 1e-16) is not represented.  The sin^2 weights of the chart (line   *)
(* 68) are the doubles math.sin(math.pi * h / 24) ** 2, held exactly; each *)
(* product total_output * weight is computed exactly and rounded to the    *)
(* nearest multiple of 1/Scale.  The script's own product carries a float  *)
(* rounding of about 1e-8 units; over all totals the sliders can produce   *)
(* no exact product lies closer than 6.8e-8 units to a half unit, so the   *)
(* model's value is the script's value rounded to the nearest unit.        *)
(***************************************************************************)
EXTENDS Integers, Sequences, FiniteSets

\* Fixed-point denominator of the float representation.
Scale == 20000

\* Number of equal steps laid over each slider range (model bound).
Grid == 1

VARIABLES
    geothermal_temp, wasted_energy_input, teg_device_level,
    teg_system_level, pipe_health, storage_capacity,
    geo_output, waste_output, teg_recovery,
    pipe_status_msg, pipe_efficiency,
    total_output, charge, discharge,
    hours, generation

inputs == <<geothermal_temp, wasted_energy_input, teg_device_level,
            teg_system_level, pipe_health, storage_capacity>>

outputs == <<geo_output, waste_output, teg_recovery, pipe_status_msg,
             pipe_efficiency, total_output, charge, discharge>>

vars == <<geothermal_temp, wasted_energy_input, teg_device_level,
          teg_system_level, pipe_health, storage_capacity,
          geo_output, waste_output, teg_recovery,
          pipe_status_msg, pipe_efficiency,
          total_output, charge, discharge, hours, generation>>

----------------------------------------------------------------------------
\* Sidebar sliders: st.sidebar.slider(label, min, max, value).

geothermal_temp_slider == [min |-> 300, max |-> 900, value |-> 600]

wasted_energy_input_slider == [min |-> 10, max |-> 200, value |-> 80]

teg_device_level_slider == [min |-> 0, max |-> 50, value |-> 15]

teg_system_level_slider == [min |-> 0, max |-> 50, value |-> 20]

pipe_health_slider == [min |-> 0, max |-> 100, value |-> 100]

storage_capacity_slider == [min |-> 100, max |-> 1000, value |-> 500]

\* The positions of a slider that the model moves it to: both ends, the
\* default, and Grid equal steps from the lower end.
SliderValues(sl) ==
    {sl.min, sl.max, sl.value}
        \cup {sl.min + k * ((sl.max - sl.min) \div Grid) : k \in 0..Grid}

\* Pipe-health positions on both sides of the two thresholds of monitor_pipe.
HealthEdges == {39, 40, 69, 70}

\* Every position of the pipe-health slider (integer step 1).
AllHealth == pipe_health_slider.min .. pipe_health_slider.max

----------------------------------------------------------------------------
\* Float arithmetic in fixed point.

\* Float product a * b of two fixed-point values: floor(a * b / Scale),
\* evaluated without exceeding 32-bit integers.
FMul(a, b) == (a \div Scale) * b + ((a % Scale) * b) \div Scale

\* int -> float
ToFloat(n) == n * Scale

\* Python's min(a, b)
Min(a, b) == IF b < a THEN b ELSE a

\* The float literals of the script.
Lit_0_5 == Scale \div 2

Lit_0_7 == (7 * Scale) \div 10

Lit_0_75 == (3 * Scale) \div 4

Lit_0_6 == (6 * Scale) \div 10

Lit_0_8 == (8 * Scale) \div 10

Lit_1_0 == Scale

----------------------------------------------------------------------------
\* Energy generation functions.

\* def geothermal_energy(temp): return 0.5 * temp
geothermal_energy(temp) == Lit_0_5 * temp

\* Variant: the unusable 30% taken for the usable share.
wasted_energy_recovery_lost(wasted) == (Scale - Lit_0_7) * wasted

\* def wasted_energy_recovery(wasted): return 0.7 * wasted
wasted_energy_recovery(wasted) == Lit_0_7 * wasted

\* Variant: the system-level TEG applied on top of the device-level
\* recovery (compounded instead of summed).
calculate_teg_recovery_compounded(usage, device_pct, system_pct) ==
    LET dev == (usage * device_pct) \div 100
    IN  dev + ((usage + dev) * system_pct) \div 100

\* Variant: the two percentages subtracted instead of added.
calculate_teg_recovery_minus(usage, device_pct, system_pct) ==
    (usage * (device_pct - system_pct)) \div 100

\* def calculate_teg_recovery(usage, device_pct, system_pct):
\*     return usage * (device_pct + system_pct) / 100
calculate_teg_recovery(usage, device_pct, system_pct) ==
    (usage * (device_pct + system_pct)) \div 100

\* The three status messages (the leading emoji of each literal is left out).
MsgWarning == "Warning: Pipe needs replacement!"

MsgModerate == "Pipe condition moderate. Monitoring closely."

MsgOptimal == "Pipe health optimal."

\* Variant: thresholds compared with <= instead of <.
monitor_pipe_le(health) ==
    IF health <= 40 THEN <<MsgWarning, Lit_0_6>>
    ELSE IF health <= 70 THEN <<MsgModerate, Lit_0_8>>
    ELSE <<MsgOptimal, Lit_1_0>>

\* Variant: the factors of the warning and the moderate tier exchanged.
monitor_pipe_swapped(health) ==
    IF health < 40 THEN <<MsgWarning, Lit_0_8>>
    ELSE IF health < 70 THEN <<MsgModerate, Lit_0_6>>
    ELSE <<MsgOptimal, Lit_1_0>>

\* def monitor_pipe(health): returns the pair (message, factor)
monitor_pipe(health) ==
    IF health < 40 THEN <<MsgWarning, Lit_0_6>>
    ELSE IF health < 70 THEN <<MsgModerate, Lit_0_8>>
    ELSE <<MsgOptimal, Lit_1_0>>

----------------------------------------------------------------------------
\* Chart series.

\* np.sin(np.pi * h / 24)**2 for h = 0..23: the double-precision value,
\* written out exactly in base Scale (Scale = 2^5 * 5^4, so a binary
\* fraction of up to 65 bits has a finite expansion of 13 digits).  The
\* entry <<d0, d1, ..., d12>> stands for d0 + d1/Scale + ... + d12/Scale^12.
\* The doubles at h and 24 - h differ in their last bits, as do sin^2 of
\* pi/6, pi/4 and pi/3 from 1/4, 1/2 and 3/4.
Sin2Table ==
    <<
       <<0, 0, 0, 0, 0, 0, 0, 0, 0, 0, 0, 0, 0>>,
       <<0, 340, 14834, 14843, 14536, 2662, 10337, 9297, 530, 17923, 14731, 8906, 5000>>,
       <<0, 1339, 14919, 4862, 4905, 12231, 19074, 18492, 13907, 16471, 5048, 16562, 10000>>,
       <<0, 2928, 18643, 15253, 16198, 12438, 2889, 13208, 11683, 15765, 19824, 4375, 0>>,
       <<0, 4999, 19999, 19999, 19991, 2364, 6321, 3989, 19628, 5155, 585, 18750, 0>>,
       <<0, 7411, 16190, 19589, 18340, 16837, 15077, 7092, 3986, 10224, 12187, 10000, 0>>,
       <<0, 9999, 19999, 19999, 19982, 4728, 12642, 7979, 19256, 10310, 1171, 17500, 0>>,
       <<0, 12588, 3809, 410, 1659, 3162, 4922, 12907, 16013, 9775, 7812, 10000, 0>>,
       <<0, 14999, 19999, 19999, 19982, 4728, 12642, 7979, 19256, 10310, 1171, 17500, 0>>,
       <<0, 17071, 1356, 4746, 3796, 18744, 270, 18786, 8130, 6811, 10468, 15000, 0>>,
       <<0, 18660, 5080, 15137, 15105, 9812, 13023, 11519, 16556, 17084, 19218, 15000, 0>>,
       <<0, 19659, 5165, 5156, 5456, 1906, 5193, 11694, 4143, 16586, 18281, 5000, 0>>,
       <<1, 0, 0, 0, 0, 0, 0, 0, 0, 0, 0, 0, 0>>,
       <<0, 19659, 5165, 5156, 5456, 1906, 5193, 11694, 4143, 16586, 18281, 5000, 0>>,
       <<0, 18660, 5080, 15137, 15105, 9812, 13023, 11519, 16556, 17084, 19218, 15000, 0>>,
       <<0, 17071, 1356, 4746, 3832, 9286, 14986, 2826, 9617, 6191, 8125, 0, 0>>,
       <<0, 15000, 0, 0, 17, 15271, 7357, 12020, 743, 9689, 18828, 2500, 0>>,
       <<0, 12588, 3809, 410, 1659, 3162, 4922, 12907, 16013, 9775, 7812, 10000, 0>>,
       <<0, 10000, 0, 0, 17, 15271, 7357, 12020, 743, 9689, 18828, 2500, 0>>,
       <<0, 7411, 16190, 19589, 18385, 5016, 3471, 7142, 5845, 4449, 9257, 16250, 0>>,
       <<0, 4999, 19999, 19999, 19991, 2364, 6321, 3989, 19628, 5155, 585, 18750, 0>>,
       <<0, 2928, 18643, 15253, 16211, 18891, 13407, 17223, 12241, 8033, 8945, 6250, 0>>,
       <<0, 1339, 14919, 4862, 4930, 730, 1691, 12520, 4930, 2294, 18437, 10000, 0>>,
       <<0, 340, 14834, 14843, 14553, 17933, 17695, 1317, 1274, 7613, 13559, 11406, 5000>> >>

Sin2(h) == Sin2Table[h + 1]

\* Long multiplication in base Scale of a = a1 * Scale + a0 by the fraction
\* digits of the weight d: the value of position Scale^-(j-1) and below,
\* in units of that position, carries from the lower positions included.
RECURSIVE MulCarry(_, _, _, _)
MulCarry(a1, a0, d, j) ==
    IF j > Len(d) THEN 0
    ELSE a0 * d[j]
         + (IF j < Len(d) THEN a1 * d[j + 1] ELSE 0)
         + (MulCarry(a1, a0, d, j + 1) \div Scale)

\* Float product of the fixed-point value a and a weight d of Sin2Table,
\* rounded to the nearest multiple of 1/Scale (half a unit rounds up).  No
\* intermediate value exceeds 32 bits.
FMulSin(a, d) ==
    LET a1 == a \div Scale
        a0 == a % Scale
        q  == MulCarry(a1, a0, d, 2)
    IN  a * d[1] + a1 * d[2] + (q \div Scale)
        + (IF (q % Scale) >= (Scale \div 2) THEN 1 ELSE 0)

\* hours = np.arange(0, 24, 1)
arange_hours == 0..23

\* Variant: np.cos in place of np.sin.
generation_series_cos(total, hrs) ==
    [h \in hrs |-> FMulSin(total, Sin2((h + 12) % 24))]

\* generation = total_output * np.sin(np.pi * hours / 24)**2
generation_series(total, hrs) == [h \in hrs |-> FMulSin(total, Sin2(h))]

----------------------------------------------------------------------------
\* Storage.

\* Variant: max in place of min.
storage_charge_max(total, capacity) ==
    IF ToFloat(capacity) > total THEN ToFloat(capacity) ELSE total

\* Variant: the battery keeps the charge of the previous run and adds to it.
storage_charge_carry(total, capacity) ==
    Min(charge + total, ToFloat(capacity))

\* charge = min(total_output, storage_capacity)
storage_charge(total, capacity) == Min(total, ToFloat(capacity))

\* Variant: the 25% loss taken for the usable part.
storage_discharge_loss(chg) == chg - FMul(chg, Lit_0_75)

\* discharge = charge * 0.75
storage_discharge(chg) == FMul(chg, Lit_0_75)

\* Variant: TEG recovery added after the pipe factor is applied.
total_generated_teg_outside(geo, waste, teg, eff) == FMul(geo + waste, eff) + teg

\* total_output = (geo_output + waste_output + teg_recovery) * pipe_efficiency
total_generated(geo, waste, teg, eff) == FMul(geo + waste + teg, eff)

----------------------------------------------------------------------------
\* One execution of the script with the slider values t, w, d, s, h, c.
Script(t, w, d, s, h, c) ==
    LET geo   == geothermal_energy(t)
        waste == wasted_energy_recovery(w)
        teg   == calculate_teg_recovery(waste + geo, d, s)
        mp    == monitor_pipe(h)
        total == total_generated(geo, waste, teg, mp[2])
        chg   == storage_charge(total, c)
        hrs   == arange_hours
    IN  /\ geothermal_temp' = t
        /\ wasted_energy_input' = w
        /\ teg_device_level' = d
        /\ teg_system_level' = s
        /\ pipe_health' = h
        /\ storage_capacity' = c
        /\ geo_output' = geo
        /\ waste_output' = waste
        /\ teg_recovery' = teg
        /\ pipe_status_msg' = mp[1]
        /\ pipe_efficiency' = mp[2]
        /\ total_output' = total
        /\ charge' = chg
        /\ discharge' = storage_discharge(chg)
        /\ hours' = hrs
        /\ generation' = generation_series(total, hrs)

\* First run of a session: every slider is at its default value.
Init ==
    LET t == geothermal_temp_slider.value
        w == wasted_energy_input_slider.value
        d == teg_device_level_slider.value
        s == teg_system_level_slider.value
        h == pipe_health_slider.value
        c == storage_capacity_slider.value
        geo   == geothermal_energy(t)
        waste == wasted_energy_recovery(w)
        teg   == calculate_teg_recovery(waste + geo, d, s)
        mp    == monitor_pipe(h)
        total == total_generated(geo, waste, teg, mp[2])
        chg   == Min(total, ToFloat(c))
    IN  /\ geothermal_temp = t
        /\ wasted_energy_input = w
        /\ teg_device_level = d
        /\ teg_system_level = s
        /\ pipe_health = h
        /\ storage_capacity = c
        /\ geo_output = geo
        /\ waste_output = waste
        /\ teg_recovery = teg
        /\ pipe_status_msg = mp[1]
        /\ pipe_efficiency = mp[2]
        /\ total_output = total
        /\ charge = chg
        /\ discharge = storage_discharge(chg)
        /\ hours = arange_hours
        /\ generation = generation_series(total, arange_hours)

\* The user moves one slider; the script is run again with the new value.
SetGeothermalTemp ==
    \E v \in SliderValues(geothermal_temp_slider) :
        /\ v # geothermal_temp
        /\ Script(v, wasted_energy_input, teg_device_level,
                  teg_system_level, pipe_health, storage_capacity)

SetWastedEnergyInput ==
    \E v \in SliderValues(wasted_energy_input_slider) :
        /\ v # wasted_energy_input
        /\ Script(geothermal_temp, v, teg_device_level,
                  teg_system_level, pipe_health, storage_capacity)

SetTegDeviceLevel ==
    \E v \in SliderValues(teg_device_level_slider) :
        /\ v # teg_device_level
        /\ Script(geothermal_temp, wasted_energy_input, v,
                  teg_system_level, pipe_health, storage_capacity)

SetTegSystemLevel ==
    \E v \in SliderValues(teg_system_level_slider) :
        /\ v # teg_system_level
        /\ Script(geothermal_temp, wasted_energy_input, teg_device_level,
                  v, pipe_health, storage_capacity)

SetPipeHealth ==
    \E v \in SliderValues(pipe_health_slider) \cup HealthEdges :
        /\ v # pipe_health
        /\ Script(geothermal_temp, wasted_energy_input, teg_device_level,
                  teg_system_level, v, storage_capacity)

SetStorageCapacity ==
    \E v \in SliderValues(storage_capacity_slider) :
        /\ v # storage_capacity
        /\ Script(geothermal_temp, wasted_energy_input, teg_device_level,
                  teg_system_level, pipe_health, v)

Next ==
    \/ SetGeothermalTemp
    \/ SetWastedEnergyInput
    \/ SetTegDeviceLevel
    \/ SetTegSystemLevel
    \/ SetPipeHealth
    \/ SetStorageCapacity

Spec == Init /\ [][Next]_vars

\* The pipe-health slider swept over every one of its positions, the
\* geothermal slider moved between its model positions.
SweepPipeHealth ==
    \E v \in AllHealth :
        /\ v # pipe_health
        /\ Script(geothermal_temp, wasted_energy_input, teg_device_level,
                  teg_system_level, v, storage_capacity)

NextSweep ==
    \/ SweepPipeHealth
    \/ SetGeothermalTemp

SpecSweep == Init /\ [][NextSweep]_vars

----------------------------------------------------------------------------
\* Properties.

\* Tenths of the efficiency factor that belongs to a pipe-health value.
TierTenths(h) == IF h < 40 THEN 6 ELSE IF h < 70 THEN 8 ELSE 10

\* C1: monitor_pipe classifies every pipe_health of 0..100 into exactly one
\* of three tiers: below 40 the warning message with factor 0.6, from 40 to
\* below 70 the moderate message with factor 0.8, from 70 on the optimal
\* message with factor 1.0; message and factor are always of the same tier.
C1_MonitorPipeTiers ==
    /\ pipe_health \in 0..100
    /\ (pipe_health < 40) =>
           (pipe_status_msg = MsgWarning /\ 10 * pipe_efficiency = 6 * Scale)
    /\ (40 <= pipe_health /\ pipe_health < 70) =>
           (pipe_status_msg = MsgModerate /\ 10 * pipe_efficiency = 8 * Scale)
    /\ (pipe_health >= 70) =>
           (pipe_status_msg = MsgOptimal /\ pipe_efficiency = Scale)
    /\ <<pipe_status_msg, 10 * pipe_efficiency>> \in
           {<<MsgWarning, 6 * Scale>>, <<MsgModerate, 8 * Scale>>,
            <<MsgOptimal, 10 * Scale>>}

\* The slider stands exactly on the lower threshold and the run has
\* classified it as moderate.
C1_Witness ==
    /\ pipe_health = 40
    /\ pipe_status_msg = MsgModerate
    /\ 10 * pipe_efficiency = 8 * Scale

\* C2: after every run charge = min(total_output, storage_capacity): the
\* total when it fits the battery, the capacity otherwise; it exceeds
\* neither.
C2_ChargeIsMin ==
    /\ (total_output <= storage_capacity * Scale) => charge = total_output
    /\ (total_output > storage_capacity * Scale) =>
           charge = storage_capacity * Scale
    /\ charge <= storage_capacity * Scale
    /\ charge <= total_output

\* A run in which more was generated than the battery holds.
C2_Witness ==
    /\ total_output > storage_capacity * Scale
    /\ charge = storage_capacity * Scale

\* C3: after every run discharge is exactly three quarters of charge, and of
\* the capacity when the total exceeds the capacity.
C3_DischargeIsThreeQuarters ==
    /\ 4 * discharge = 3 * charge
    /\ (total_output > storage_capacity * Scale) =>
           4 * discharge = 3 * storage_capacity * Scale

\* A run with a full battery and a non-zero discharge.
C3_Witness ==
    /\ total_output > storage_capacity * Scale
    /\ discharge > 0
    /\ discharge < charge

\* C4: after every run total_output = (geo_output + waste_output +
\* teg_recovery) * pipe_efficiency with geo_output = 0.5 * geothermal_temp,
\* waste_output = 0.7 * wasted_energy_input and pipe_efficiency the factor of
\* the tier of the same run's pipe_health.
C4_TotalOutput ==
    /\ 2 * geo_output = geothermal_temp * Scale
    /\ 10 * waste_output = 7 * wasted_energy_input * Scale
    /\ 10 * pipe_efficiency = TierTenths(pipe_health) * Scale
    /\ 10 * total_output =
           (geo_output + waste_output + teg_recovery) * TierTenths(pipe_health)

\* A run with a degraded pipe and a non-zero TEG recovery.
C4_Witness ==
    /\ pipe_health < 40
    /\ teg_recovery > 0
    /\ total_output < geo_output + waste_output + teg_recovery

\* C5: teg_recovery = usage * (device + system) / 100 with usage = 0.5 * temp
\* + 0.7 * wasted: the percentages are summed, and the recovery is 0 when
\* both are 0.
C5_TegRecovery ==
    /\ 10 * (geo_output + waste_output) =
           (5 * geothermal_temp + 7 * wasted_energy_input) * Scale
    /\ 100 * teg_recovery =
           (geo_output + waste_output) * (teg_device_level + teg_system_level)
    /\ (teg_device_level = 0 /\ teg_system_level = 0) => teg_recovery = 0

\* A run with both TEG levels switched on.
C5_Witness ==
    /\ teg_device_level > 0
    /\ teg_system_level > 0
    /\ teg_recovery > 0

\* C6: the slider defaults are 600, 80, 15, 20, 100, 500, and a run with
\* them yields geo_output 300.00, waste_output 56.00, teg_recovery 124.60,
\* pipe_efficiency 1.0, total_output 480.60, charge 480.60, discharge 360.45.
C6_DefaultExample ==
    /\ <<geothermal_temp_slider.value, wasted_energy_input_slider.value,
         teg_device_level_slider.value, teg_system_level_slider.value,
         pipe_health_slider.value, storage_capacity_slider.value>>
           = <<600, 80, 15, 20, 100, 500>>
    /\ (inputs = <<600, 80, 15, 20, 100, 500>>) =>
           /\ geo_output = 300 * Scale
           /\ waste_output = 56 * Scale
           /\ 100 * teg_recovery = 12460 * Scale
           /\ pipe_efficiency = Scale
           /\ 100 * total_output = 48060 * Scale
           /\ 100 * charge = 48060 * Scale
           /\ 100 * discharge = 36045 * Scale

\* The dashboard shows the run with the default inputs.
C6_Witness ==
    /\ inputs = <<600, 80, 15, 20, 100, 500>>
    /\ 100 * discharge = 36045 * Scale

\* C7: after any sequence of slider changes every derived output is the
\* value of a function of the six current slider values alone; nothing of an
\* earlier run is carried over.
C7_OutputsDependOnInputsOnly ==
    LET geo   == geothermal_energy(geothermal_temp)
        waste == wasted_energy_recovery(wasted_energy_input)
        teg   == calculate_teg_recovery(waste + geo, teg_device_level,
                                        teg_system_level)
        mp    == monitor_pipe(pipe_health)
        total == FMul(geo + waste + teg, mp[2])
        chg   == Min(total, ToFloat(storage_capacity))
    IN  outputs = <<geo, waste, teg, mp[1], mp[2], total, chg,
                    FMul(chg, Lit_0_75)>>

\* A state that is only reached after several runs with other inputs, the
\* earlier ones with a battery that was filled to its capacity.
C7_Witness ==
    /\ pipe_health < 40
    /\ geothermal_temp = 300
    /\ storage_capacity = 1000
    /\ charge = total_output
    /\ charge < 500 * Scale

\* C8: for all slider inputs within their ranges geo_output, waste_output,
\* teg_recovery, total_output, charge and discharge are >= 0.
C8_NonNegative ==
    /\ geothermal_temp \in 300..900
    /\ wasted_energy_input \in 10..200
    /\ teg_device_level \in 0..50
    /\ teg_system_level \in 0..50
    /\ pipe_health \in 0..100
    /\ storage_capacity \in 100..1000
    /\ geo_output >= 0
    /\ waste_output >= 0
    /\ teg_recovery >= 0
    /\ total_output >= 0
    /\ charge >= 0
    /\ discharge >= 0

\* Every slider at its lower end: the smallest outputs.
C8_Witness ==
    /\ inputs = <<300, 10, 0, 0, 0, 100>>
    /\ teg_recovery = 0
    /\ total_output > 0

\* C9: the chart series is computed over exactly the hours 0..23 as
\* total_output * sin(pi*h/24)^2; it is 0 at hour 0 and total_output at
\* hour 12.  The sin^2 shape is stated by what it implies at 1/Scale
\* resolution: a quarter, a half and three quarters of the total at hours 4,
\* 6 and 8, values between 0 and the total, the mirror symmetry about hour
\* 12, and sin^2(x) + sin^2(pi/2 - x) = 1.
C9_GenerationSeries ==
    /\ hours = 0..23
    /\ DOMAIN generation = 0..23
    /\ generation[0] = 0
    /\ generation[12] = total_output
    /\ 4 * generation[4] = total_output
    /\ 2 * generation[6] = total_output
    /\ 4 * generation[8] = 3 * total_output
    /\ \A h \in 0..23 : 0 <= generation[h] /\ generation[h] <= total_output
    /\ \A h \in 1..11 : generation[24 - h] = generation[h]
    /\ \A h \in 0..12 :
           LET e == generation[h] + generation[12 - h] - total_output
           IN  -1 <= e /\ e <= 1

\* A run with a non-default total whose series peaks at noon.
C9_Witness ==
    /\ total_output > 500 * Scale
    /\ generation[12] = total_output
    /\ generation[6] < total_output
    /\ generation[6] > 0

\* Exactly one slider has been moved, and it has been moved upwards.
OneSliderRaised ==
    /\ Cardinality({i \in 1..6 : inputs[i] # inputs'[i]}) = 1
    /\ \A i \in 1..6 : inputs[i] <= inputs'[i]

\* C10: raising exactly one of the six sliders never lowers total_output,
\* charge or discharge.
C10_Monotone ==
    [][OneSliderRaised =>
          /\ total_output' >= total_output
          /\ charge' >= charge
          /\ discharge' >= discharge]_vars

\* The pipe stands on a threshold with a battery filled to capacity.
C10_Witness ==
    /\ pipe_health = 70
    /\ geothermal_temp = 900
    /\ charge = storage_capacity * Scale
    /\ total_output > charge

====
